---- MODULE Spec2Model ----
(***************************************************************************)
(* A model of asphalt-influxdb: the InfluxDB client (host failover and     *)
(* re-ranking, status interpretation, result decoding), the line protocol  *)
(* encoder of DataPoint, the rows of a Series and the SelectQuery builder. *)
(***************************************************************************)
EXTENDS Integers, Sequences, FiniteSets, TLC

VARIABLES
    base_urls,       \* InfluxDBClient.base_urls: the ordered host list
    session,         \* InfluxDBClient._session: "session" or "None"
    close_session,   \* InfluxDBClient._close_session
    session_closed,  \* ClientSession.closed of the session object
    close_pc,        \* position of the close() coroutine
    task,            \* the callers' coroutines: one call each at a time
    dp,              \* a DataPoint being constructed and encoded
    the_series,      \* a Series of a result set, with its list of raw rows
    gen,             \* the generators made by iter(series), by the caller's name for them
    queries,         \* the SelectQuery objects there are, in the order of their creation
    derived          \* for each of them, the call that returned it

client == <<base_urls, session, close_session, session_closed, close_pc, task>>

iteration == <<the_series, gen>>

builder == <<queries, derived>>

vars == <<client, dp, iteration, builder>>

(***************************************************************************)
(* Bounds and input sets                                                   *)
(***************************************************************************)
MaxHosts == 3

Tasks == {"t1", "t2"}

Url(k) == "http://h" \o ToString(k)

AllUrls == {Url(k) : k \in 1..MaxHosts}

None == [t |-> "None"]

(***************************************************************************)
(* Sequence helpers                                                        *)
(***************************************************************************)
Range(s) == {s[k] : k \in 1..Len(s)}

\* list.pop(i) with a 0-based index: the list without that element
Pop(list, i) == [k \in 1..(Len(list) - 1) |-> IF k <= i THEN list[k] ELSE list[k + 1]]

\* list.insert(0, x)
Insert0(list, x) == <<x>> \o list

RECURSIVE Join(_, _)
\* sep.join(strs) for a sequence of strings
Join(sep, strs) ==
    IF strs = <<>> THEN ""
    ELSE IF Len(strs) = 1 THEN strs[1]
    ELSE strs[1] \o sep \o Join(sep, Tail(strs))

\* a Python exception raised to the caller
Raise(type, msg) == [t |-> "raise", type |-> type, msg |-> msg]

(***************************************************************************)
(* Python values.  A value is [type, chars]: its Python type and the       *)
(* characters of str(value).  A timestamp is [type, v] with v an integer:  *)
(* the integer itself, or the microseconds of a datetime since the epoch.  *)
(***************************************************************************)
\* str(value)
PyStr(value) == Join("", value.chars)

\* isinstance(value, types); bool is a subclass of int
IsInstance(value, types) ==
    \/ value.type \in types
    \/ value.type = "bool" /\ "int" \in types

NoTimestamp == [type |-> "NoneType", v |-> 0]

(***************************************************************************)
(* asphalt.influxdb.utils (not among the sources): modelled from the       *)
(* specification                                                           *)
(***************************************************************************)
RECURSIVE Escape(_)
\* backslashes and double quotes of a text, each escaped with a backslash
Escape(chars) ==
    IF chars = <<>> THEN ""
    ELSE (IF Head(chars) \in {"\\", "\""} THEN "\\" \o Head(chars) ELSE Head(chars))
         \o Escape(Tail(chars))

\* utils.quote_string: the text in double quotes, inner quotes and backslashes escaped
quote_string(value) == "\"" \o Escape(value.chars) \o "\""

\* utils.convert_to_timestamp: the ticks of a datetime (microseconds since the
\* epoch) in the requested precision; nanoseconds when none is requested
convert_to_timestamp(timestamp, precision) ==
    CASE precision \in {"None", "n"} -> timestamp.v * 1000
      [] precision = "u" -> timestamp.v
      [] precision = "ms" -> timestamp.v \div 1000
      [] precision = "s" -> timestamp.v \div 1000000
      [] precision = "m" -> timestamp.v \div 60000000
      [] precision = "h" -> (timestamp.v \div 60000000) \div 60

(***************************************************************************)
(* DataPoint                                                               *)
(***************************************************************************)
\* a constructor that accepts an empty field mapping
DataPointUnchecked(measurement, tags, fields, timestamp) ==
    [t |-> "DataPoint", measurement |-> measurement, tags |-> tags,
     fields |-> fields, timestamp |-> timestamp]

\* DataPoint.__init__: tags and fields are ordered mappings, modelled as
\* sequences of <<key, value>> pairs
DataPoint(measurement, tags, fields, timestamp) ==
    IF fields = <<>>
    THEN Raise("ValueError", "at least one field is required")
    ELSE [t |-> "DataPoint", measurement |-> measurement, tags |-> tags,
          fields |-> fields, timestamp |-> timestamp]

\* the integer test taken first: booleans are integers too
FieldValueIntFirst(value) ==
    IF IsInstance(value, {"int"}) THEN PyStr(value) \o "i"
    ELSE IF IsInstance(value, {"float", "Decimal", "bool"}) THEN PyStr(value)
    ELSE quote_string(value)

\* the value of one field as as_line writes it
FieldValue(value) ==
    IF IsInstance(value, {"float", "Decimal", "bool"}) THEN PyStr(value)
    ELSE IF IsInstance(value, {"int"}) THEN PyStr(value) \o "i"
    ELSE quote_string(value)

\* '%s=%s' % (key, value) for the tags
TagItems(tags) == [k \in 1..Len(tags) |-> tags[k][1] \o "=" \o PyStr(tags[k][2])]

\* '%s=%s' % (key, value) for the fields
FieldItems(fields) == [k \in 1..Len(fields) |-> fields[k][1] \o "=" \o FieldValue(fields[k][2])]

\* the timestamp part of a line
TimestampPart(timestamp, precision) ==
    IF timestamp.type # "NoneType"
    THEN " " \o ToString(IF timestamp.type = "datetime"
                         THEN convert_to_timestamp(timestamp, precision)
                         ELSE timestamp.v)
    ELSE ""

\* DataPoint.as_line
as_line(self, precision) ==
    self.measurement
    \o (IF self.tags # <<>> THEN "," \o Join(",", TagItems(self.tags)) ELSE "")
    \o " "
    \o Join(",", FieldItems(self.fields))
    \o TimestampPart(self.timestamp, precision)

(***************************************************************************)
(* Query results                                                           *)
(***************************************************************************)
Return(value) == [t |-> "return", value |-> value]

\* Series.__init__
Series(item) ==
    [t |-> "Series", name |-> item.name, columns |-> item.columns, values |-> item.values]

List(items) == [t |-> "list", v |-> items]

InfluxDBError(msg) == [t |-> "InfluxDBError", msg |-> msg]

\* raw_query.get_series: the decoded result of one statement
get_series(result) ==
    IF "error" \in DOMAIN result THEN InfluxDBError(result.error)
    ELSE IF "series" \in DOMAIN result
    THEN LET series_list == [k \in 1..Len(result.series) |-> Series(result.series[k])]
         IN  IF Len(series_list) = 1 THEN series_list[1] ELSE List(series_list)
    ELSE None

\* a decoder that raises the first error among the results, however many
DecodeResultsRaiseAny(results) ==
    LET series_list == [k \in 1..Len(results) |-> get_series(results[k])]
        errors == SelectSeq(series_list, LAMBDA r : r.t = "InfluxDBError")
    IN  IF errors # <<>> THEN Raise("InfluxDBError", errors[1].msg)
        ELSE IF Len(series_list) = 1 THEN Return(series_list[1])
        ELSE Return(List(series_list))

\* raw_query on a 200 response: the results of the statements, flattened
DecodeResults(results) ==
    LET series_list == [k \in 1..Len(results) |-> get_series(results[k])]
    IN  IF Len(series_list) = 1
        THEN IF series_list[1].t = "InfluxDBError"
             THEN Raise("InfluxDBError", series_list[1].msg)
             ELSE Return(series_list[1])
        ELSE Return(List(series_list))

UnexpectedStatus(response) ==
    Raise("InfluxDBError", "unexpected HTTP status code: " \o ToString(response.status))

\* the status alone, whatever the content type
IsServerErrorAnyType(response) == response.status \in {400, 404, 500}

\* the branch of raw_query and write_many for an error the server describes
IsServerError(response) ==
    /\ response.status \in {400, 404, 500}
    /\ response.content_type = "application/json"

\* raw_query after _request has returned a response
QueryOutcome(response) ==
    IF response.status = 200 THEN DecodeResults(response.json.results)
    ELSE IF IsServerError(response) THEN Raise("InfluxDBError", response.json.error)
    ELSE UnexpectedStatus(response)

\* write_many after _request has returned a response
WriteOutcome(response) ==
    IF response.status = 204 THEN Return(None)
    ELSE IF IsServerError(response) THEN Raise("InfluxDBError", response.json.error)
    ELSE UnexpectedStatus(response)

VersionHeader == "X-Influxdb-Version"

\* ping after _request has returned a response
PingOutcome(response) ==
    IF response.status = 204
    THEN IF VersionHeader \in DOMAIN response.headers
         THEN Return([t |-> "str", v |-> response.headers[VersionHeader]])
         ELSE Raise("KeyError", VersionHeader)
    ELSE UnexpectedStatus(response)

\* what the operation makes of the response
Outcome(op, response) ==
    CASE op = "write" -> WriteOutcome(response)
      [] op = "query" -> QueryOutcome(response)
      [] op = "ping" -> PingOutcome(response)

(***************************************************************************)
(* The HTTP transport: what one attempt on a host can come to              *)
(***************************************************************************)
Headers(version) ==
    IF version = "" THEN ("Content-Length" :> "0")
    ELSE ("Content-Length" :> "0") @@ (VersionHeader :> version)

Response(status, content_type, error, results, version) ==
    [status |-> status, content_type |-> content_type,
     json |-> [error |-> error, results |-> results], headers |-> Headers(version)]

NoResponse == Response(0, "", "", <<>>, "")

ConnectionError == [kind |-> "ClientConnectionError", response |-> NoResponse]

OtherError == [kind |-> "Exception", response |-> NoResponse]

Responded(response) == [kind |-> "response", response |-> response]

(***************************************************************************)
(* InfluxDBClient                                                          *)
(***************************************************************************)
Pending == [t |-> "pending"]

\* a dict, as the sequence of its <<key, value>> items
Dict(items) == [t |-> "dict", items |-> items]

\* InfluxDBClient.__init__, lines 114-117, for a client made without db,
\* username, password, epoch, chunked and retention_policy: unset keys are
\* left out, so there are no default query parameters
default_query_params == Dict(<<>>)

\* utils.merge_query_params: the values of the call override the defaults key
\* by key
merge_query_params(defaults, query_params) ==
    Dict(SelectSeq(defaults.items,
                   LAMBDA item : \A k \in 1..Len(query_params.items) :
                                    query_params.items[k][1] # item[1])
         \o query_params.items)

Idle ==
    [pc |-> "idle", op |-> "none", fields |-> <<>>, method |-> "", path |-> "",
     params |-> Dict(<<>>), data |-> "", i |-> 0, base_url |-> "", requests |-> 0, tried |-> {}, solo |-> TRUE,
     outcome |-> "none", response |-> NoResponse, result |-> Pending]

\* a promotion that writes the host over the first instead of moving it
PromoteOver(urls, i) == [urls EXCEPT ![1] = urls[i + 1]]

\* a promotion that is not stable: the host changes places with the first
PromoteSwap(urls, i) ==
    [k \in 1..Len(urls) |-> IF k = 1 THEN urls[i + 1] ELSE IF k = i + 1 THEN urls[1] ELSE urls[k]]

\* _request, lines 154-155: the known-good base URL moves to the beginning
Promote(urls, i) ==
    IF Len(urls) > 1 THEN Insert0(Pop(urls, i), urls[i + 1]) ELSE urls

\* a call that has ended
Done(tk, outcome, response, result) ==
    [tk EXCEPT !.pc = "done", !.outcome = outcome, !.response = response,
               !.result = result]

\* a loop that gives up one host early
TryHostShort(tk, i) ==
    IF i + 1 >= Len(base_urls) /\ i > 0
    THEN Done([tk EXCEPT !.i = i], tk.outcome, NoResponse,
              Raise("InfluxDBError", "no servers could be reached"))
    ELSE LET base_url == base_urls[i + 1]
             at == [tk EXCEPT !.i = i, !.base_url = base_url]
         IN  IF session = "None" \/ session_closed
             THEN Done(at, "no session", NoResponse,
                       Raise("InfluxDBError",
                             "unexpected error when connecting to " \o base_url))
             ELSE [at EXCEPT !.pc = "waiting", !.requests = @ + 1,
                             !.tried = @ \cup {base_url}]

\* _request, lines 143-150 and 158-159: the loop reaches index i of the list as
\* it is now.  Past the end no server could be reached; without a usable
\* session (None after close(), or closed) the attempt raises before any HTTP
\* request goes out and the call ends; otherwise the request goes out and the
\* coroutine waits for it.
TryHost(tk, i) ==
    IF i >= Len(base_urls)
    THEN Done([tk EXCEPT !.i = i], tk.outcome, NoResponse,
              Raise("InfluxDBError", "no servers could be reached"))
    ELSE LET base_url == base_urls[i + 1]
             at == [tk EXCEPT !.i = i, !.base_url = base_url]
         IN  IF session = "None" \/ session_closed
             THEN Done(at, "no session", NoResponse,
                       Raise("InfluxDBError",
                             "unexpected error when connecting to " \o base_url))
             ELSE [at EXCEPT !.pc = "waiting", !.requests = @ + 1,
                             !.tried = @ \cup {base_url}]

\* a caller's coroutine starts a call: whoever is waiting is no longer alone
Enter(t, tk) ==
    /\ task[t].pc \in {"idle", "done"}
    /\ task' = [u \in Tasks |->
                  IF u = t
                  THEN [tk EXCEPT !.solo = \A w \in Tasks \ {t} : task[w].pc # "waiting"]
                  ELSE IF task[u].pc = "waiting" THEN [task[u] EXCEPT !.solo = FALSE]
                  ELSE task[u]]
    /\ UNCHANGED <<base_urls, session, close_session, session_closed, close_pc, dp, iteration, builder>>

\* _request up to its first await
Request(t, op, method, path, data) ==
    Enter(t, TryHost([Idle EXCEPT !.op = op, !.method = method, !.path = path,
                                  !.data = data], 0))

\* ping, line 285
ping(t) == Request(t, "ping", "GET", "/ping", "")

\* raw_query, lines 206-214: query is the sequence of the words of the query
\* string; http_verb is "None" when omitted; the query string goes out as the
\* parameter q (the task's data) next to the merged query parameters
raw_query(t, query, http_verb, query_params) ==
    LET StartsWith(word) == Len(query) > 1 /\ query[1] = word
        verb == IF http_verb = "None"
                THEN IF StartsWith("SHOW") \/ StartsWith("SELECT") THEN "GET" ELSE "POST"
                ELSE http_verb
    IN  Enter(t, TryHost([Idle EXCEPT !.op = "query", !.method = verb, !.path = "/query",
                                      !.params = merge_query_params(default_query_params,
                                                                    query_params),
                                      !.data = Join(" ", query)], 0))

\* write_many, lines 262-266
write_many(t, tk, datapoints, precision) ==
    LET lines == Join("\n", [k \in 1..Len(datapoints) |-> as_line(datapoints[k], precision)])
    IN  Enter(t, TryHost([tk EXCEPT !.method = "POST", !.path = "/write", !.data = lines], 0))

\* write, lines 250-251; the task keeps the fields it was called with
write(t, measurement, tags, fields, timestamp, precision) ==
    LET tk == [Idle EXCEPT !.op = "write", !.fields = fields]
        datapoint == DataPoint(measurement, tags, fields, timestamp)
    IN  IF datapoint.t = "raise"
        THEN Enter(t, Done(tk, "none", NoResponse, datapoint))
        ELSE write_many(t, tk, <<datapoint>>, precision)

\* a handler that goes on to the next host after any error
DeliverRetry(t, o) ==
    /\ task[t].pc = "waiting"
    /\ LET tk == [task[t] EXCEPT !.outcome = o.kind]
       IN  CASE o.kind \in {"ClientConnectionError", "Exception"} ->
                  /\ task' = [task EXCEPT ![t] = TryHost(tk, tk.i + 1)]
                  /\ UNCHANGED base_urls
             [] o.kind = "response" ->
                  /\ base_urls' = Promote(base_urls, tk.i)
                  /\ task' = [task EXCEPT ![t] =
                        Done(tk, o.kind, o.response, Outcome(tk.op, o.response))]
    /\ UNCHANGED <<session, close_session, session_closed, close_pc, dp, iteration, builder>>

\* the awaited HTTP request of a call ends: _request, lines 147-157, and the
\* rest of the operation
Deliver(t, o) ==
    /\ task[t].pc = "waiting"
    /\ LET tk == [task[t] EXCEPT !.outcome = o.kind]
       IN  CASE o.kind = "ClientConnectionError" ->
                  /\ task' = [task EXCEPT ![t] = TryHost(tk, tk.i + 1)]
                  /\ UNCHANGED base_urls
             [] o.kind = "Exception" ->
                  /\ task' = [task EXCEPT ![t] =
                        Done(tk, o.kind, NoResponse,
                             Raise("InfluxDBError",
                                   "unexpected error when connecting to " \o tk.base_url))]
                  /\ UNCHANGED base_urls
             [] o.kind = "response" ->
                  /\ base_urls' = Promote(base_urls, tk.i)
                  /\ task' = [task EXCEPT ![t] =
                        Done(tk, o.kind, o.response, Outcome(tk.op, o.response))]
    /\ UNCHANGED <<session, close_session, session_closed, close_pc, dp, iteration, builder>>

\* a close() that closes the session whoever created it
CloseAlways ==
    /\ close_pc = "open"
    /\ session_closed' = TRUE
    /\ close_pc' = "closing"
    /\ UNCHANGED <<session, base_urls, close_session, task, dp, iteration, builder>>

\* close, lines 137-140: an owned session is closed, which is awaited
close ==
    /\ close_pc = "open"
    /\ IF close_session
       THEN /\ session_closed' = TRUE
            /\ close_pc' = "closing"
            /\ UNCHANGED session
       ELSE /\ session' = "None"
            /\ close_pc' = "closed"
            /\ UNCHANGED session_closed
    /\ UNCHANGED <<base_urls, close_session, task, dp, iteration, builder>>

\* close, line 140, after the await
CloseDone ==
    /\ close_pc = "closing"
    /\ session' = "None"
    /\ close_pc' = "closed"
    /\ UNCHANGED <<base_urls, close_session, session_closed, task, dp, iteration, builder>>

(***************************************************************************)
(* Inputs                                                                  *)
(***************************************************************************)
StrValue(chars) == [type |-> "str", chars |-> chars]

IntValue(chars) == [type |-> "int", chars |-> chars]

FloatValue(chars) == [type |-> "float", chars |-> chars]

DecimalValue(chars) == [type |-> "Decimal", chars |-> chars]

BoolValue(chars) == [type |-> "bool", chars |-> chars]

IntTimestamp(v) == [type |-> "int", v |-> v]

Datetime(us) == [type |-> "datetime", v |-> us]

Precisions == {"None", "n", "u", "ms", "s", "m", "h"}

\* the series of the query results
Series1 == [name |-> "m1", columns |-> <<"time", "f1">>, values |-> <<<<"t1", "4.32">>>>]

Series2 == [name |-> "m2", columns |-> <<"time", "f1">>, values |-> <<>>]

MaxStatements == 2

SeqsUpTo(S, n) == UNION {[1..k -> S] : k \in 0..n}

SeriesLists == {<<>>, <<Series1>>, <<Series1, Series2>>}

\* the entries of "results": with an error, with series, with both or neither
Statements ==
    {[statement_id |-> 0]}
    \cup {[statement_id |-> 0, error |-> "measurement not found"]}
    \cup {[statement_id |-> 0, series |-> ss] : ss \in SeriesLists}
    \cup {[statement_id |-> 0, error |-> "partial", series |-> <<Series1>>]}

Payloads == SeqsUpTo(Statements, MaxStatements)

ContentTypes == {"application/json", "text/plain"}

Versions == {"", "1.1.0"}

\* every kind of response: a 200 with results, a 204 with or without the
\* version header, the statuses of server errors with and without a JSON body
\* of the error, and a status the client does not know
\* the results of the runs that are about the statuses
FewPayloads ==
    {<<[statement_id |-> 0, series |-> <<Series1>>]>>,
     <<[statement_id |-> 0, error |-> "measurement not found"]>>,
     <<[statement_id |-> 0, error |-> "measurement not found"], [statement_id |-> 0]>>}

Responses ==
    {Response(200, "application/json", "", p, "1.1.0") : p \in FewPayloads}
    \cup {Response(204, c, "", <<>>, v) : c \in ContentTypes, v \in Versions}
    \cup {Response(st, c, IF c = "application/json" THEN "database not found" ELSE "",
                   <<>>, "1.1.0") : st \in {400, 404, 500, 503}, c \in ContentTypes}

Outcomes == {ConnectionError, OtherError} \cup {Responded(r) : r \in Responses}

\* the responses of the runs with several callers
FewResponses ==
    {Response(204, "text/plain", "", <<>>, "1.1.0"),
     Response(500, "application/json", "database not found", <<>>, "1.1.0")}

FewOutcomes == {ConnectionError, OtherError} \cup {Responded(r) : r \in FewResponses}

Queries == {<<"SELECT", "*", "FROM", "m1">>, <<"SHOW", "DATABASES">>, <<"DROP", "DATABASE", "d">>}

Verbs == {"None", "GET", "POST"}

TagSets == {<<>>, <<<<"tag1", StrValue(<<"a", "b", "c">>)>>, <<"tag2", IntValue(<<"6">>)>>>>}

FieldSets == {<<>>, <<<<"field2", IntValue(<<"7">>)>>, <<"field3", StrValue(<<"x">>)>>>>}

NoDataPoint == [pc |-> "none", measurement |-> "", tags |-> <<>>, fields |-> <<>>,
                timestamp |-> NoTimestamp, precision |-> "None", line |-> ""]

(***************************************************************************)
(* Series and its rows                                                     *)
(***************************************************************************)
MaxRows == 2

Gens == {"g1", "g2"}

RECURSIVE Seconds(_)
\* the number a string of digits stands for
Seconds(chars) ==
    IF chars = <<>> THEN 0
    ELSE LET d == chars[Len(chars)]
             n == CASE d = "0" -> 0 [] d = "1" -> 1 [] d = "2" -> 2 [] d = "3" -> 3
                    [] d = "4" -> 4 [] d = "5" -> 5 [] d = "6" -> 6 [] d = "7" -> 7
                    [] d = "8" -> 8 [] OTHER -> 9
         IN  10 * Seconds(SubSeq(chars, 1, Len(chars) - 1)) + n

\* dateutil.parser.parse, called at query.py line 28: the string of a time
\* (here the digits of its seconds) becomes a datetime; what is not a string
\* or a stream of characters is refused
parse(timestr) ==
    IF timestr.type = "str"
    THEN Return(Datetime(1000000 * Seconds(timestr.chars)))
    ELSE Raise("TypeError", "Parser must be a string or character stream, not "
                            \o timestr.type)

\* Series.__iter__, line 79: the dict of the columns' indexes (from 1 here)
ColumnIndexes(columns) ==
    [key \in Range(columns) |->
        CHOOSE index \in 1..Len(columns) :
            /\ columns[index] = key
            /\ \A other \in 1..Len(columns) : columns[other] = key => other <= index]

\* KeyedTuple.__init__, lines 21-28: the row is the list it was given, and
\* the time in it, if there is one, is replaced in that list by its datetime
KeyedTuple(columns, row) ==
    IF "time" \in DOMAIN columns
    THEN LET time_index == columns["time"]
             parsed == parse(row[time_index])
         IN  IF parsed.t = "raise" THEN parsed
             ELSE [t |-> "KeyedTuple", columns |-> columns,
                   row |-> [row EXCEPT ![time_index] = parsed.value]]
    ELSE [t |-> "KeyedTuple", columns |-> columns, row |-> row]

NoGenerator == [pc |-> "none", index |-> 0, yielded |-> <<>>, result |-> Pending]

\* iter(series): a generator that has not run yet
Iter(g) ==
    /\ the_series.t = "Series"
    /\ gen[g].pc = "none"
    /\ gen' = [gen EXCEPT ![g] = [@ EXCEPT !.pc = "running"]]
    /\ UNCHANGED <<client, dp, the_series, builder>>

\* next(generator), Series.__iter__ lines 80-81: the loop goes on to the next
\* item of the list of rows; the row it yields is that list item itself
NextRow(g) ==
    /\ gen[g].pc = "running"
    /\ IF gen[g].index >= Len(the_series.values)
       THEN /\ gen' = [gen EXCEPT ![g] = [@ EXCEPT !.pc = "exhausted",
                                                   !.result = Raise("StopIteration", "")]]
            /\ UNCHANGED the_series
       ELSE LET item == the_series.values[gen[g].index + 1]
                tuple == KeyedTuple(ColumnIndexes(the_series.columns), item)
            IN  IF tuple.t = "raise"
                THEN /\ gen' = [gen EXCEPT ![g] = [@ EXCEPT !.pc = "raised", !.result = tuple]]
                     /\ UNCHANGED the_series
                ELSE /\ gen' = [gen EXCEPT ![g] = [@ EXCEPT !.index = @ + 1,
                                                            !.yielded = Append(@, tuple)]]
                     /\ the_series' = [the_series EXCEPT
                                         !.values[gen[g].index + 1] = tuple.row]
    /\ UNCHANGED <<client, dp, builder>>

\* no series is being iterated
NoIteration ==
    /\ the_series = None
    /\ gen = [g \in Gens |-> NoGenerator]

(***************************************************************************)
(* SelectQuery, the query builder                                          *)
(***************************************************************************)
MaxQueries == 3

\* utils.transform_value: the text of a value of a key-value pair of where(),
\* typed as the values of fields are
transform_value(value) ==
    IF IsInstance(value, {"float", "Decimal", "bool"}) THEN PyStr(value)
    ELSE IF IsInstance(value, {"int"}) THEN PyStr(value) \o "i"
    ELSE quote_string(value)

\* SelectQuery.__init__, lines 98-108: the clauses are strings, '' when absent
SelectQuery(select, from_, into, where, group_by, order_by, query_params) ==
    [_select |-> select, _from |-> from_, _into |-> into, _where |-> where,
     _order_by |-> order_by, _group_by |-> group_by,
     _query_params |-> IF query_params.t = "None" \/ query_params.items = <<>>
                       THEN Dict(<<>>) ELSE query_params]

\* InfluxDBClient.query, line 170, called with a select and a from_
client_query(select, from_) == SelectQuery(select, from_, "", "", "", "", None)

\* new expressions put before the clause there is
AugmentFront(clause, sep, expressions) ==
    LET expression == Join(sep, expressions)
    IN  IF expression # "" /\ clause # "" THEN expression \o sep \o clause
        ELSE expression

\* lines 121-123, 155-157, 173-175, 191-193: the expressions joined, and
\* joined to the clause there is if both are not empty
Augment(clause, sep, expressions) ==
    LET expression == Join(sep, expressions)
    IN  IF expression # "" /\ clause # "" THEN clause \o sep \o expression
        ELSE expression

\* SelectQuery.select
select(self, expressions) ==
    SelectQuery(Augment(self._select, ",", expressions), self._from, self._into,
                self._where, self._group_by, self._order_by, self._query_params)

\* SelectQuery.into
into(self, name) ==
    SelectQuery(self._select, self._from, quote_string(name), self._where,
                self._group_by, self._order_by, self._query_params)

\* SelectQuery.where: equals is the sequence of the <<key, value>> pairs given
\* by keyword
where(self, expressions, equals) ==
    LET equal_exprs == [k \in 1..Len(equals) |->
                          quote_string(equals[k][1]) \o " = "
                          \o transform_value(equals[k][2])]
    IN  SelectQuery(self._select, self._from, self._into,
                    Augment(self._where, " AND ", expressions \o equal_exprs),
                    self._group_by, self._order_by, self._query_params)

\* SelectQuery.group_by
group_by(self, expressions) ==
    SelectQuery(self._select, self._from, self._into, self._where,
                Augment(self._group_by, ",", expressions), self._order_by,
                self._query_params)

\* SelectQuery.order_by
order_by(self, expressions) ==
    SelectQuery(self._select, self._from, self._into, self._where, self._group_by,
                Augment(self._order_by, ",", expressions), self._query_params)

\* SelectQuery.params
params(self, query_params) ==
    SelectQuery(self._select, self._from, self._into, self._where, self._group_by,
                self._order_by, query_params)

\* a rendering that writes every keyword, with or without its clause
PiecesAll(self) ==
    <<"SELECT", self._select, "INTO", self._into, "FROM", self._from,
      "WHERE", self._where, "GROUP BY", self._group_by, "ORDER BY", self._order_by>>

\* SelectQuery.__str__, lines 219-235: the keywords and clauses of the text in
\* their order; the text is these with one space between them
Pieces(self) ==
    <<"SELECT", self._select>>
    \o (IF self._into # "" THEN <<"INTO", self._into>> ELSE <<>>)
    \o <<"FROM", self._from>>
    \o (IF self._where # "" THEN <<"WHERE", self._where>> ELSE <<>>)
    \o (IF self._group_by # "" THEN <<"GROUP BY", self._group_by>> ELSE <<>>)
    \o (IF self._order_by # "" THEN <<"ORDER BY", self._order_by>> ELSE <<>>)

\* str(query)
str(self) == Join(" ", Pieces(self))

\* the call a query was returned by
Call(op, self, expressions, name, query_params) ==
    [op |-> op, self |-> self, expressions |-> expressions, name |-> name,
     query_params |-> query_params]

\* a method that changes the query it is called on and returns it
ReturnsSelf(call, query) ==
    /\ Len(queries) < MaxQueries
    /\ queries' = Append([queries EXCEPT ![call.self] = query], query)
    /\ derived' = Append(derived, call)
    /\ UNCHANGED <<client, dp, iteration>>

\* a method of the query queries[call.self] returns: its result is a new
\* object, and no line of the methods assigns to self or changes its dict
Returns(call, query) ==
    /\ Len(queries) < MaxQueries
    /\ queries' = Append(queries, query)
    /\ derived' = Append(derived, call)
    /\ UNCHANGED <<client, dp, iteration>>

NoName == [type |-> "str", chars |-> <<>>]

CallSelect(self, expressions) ==
    Returns(Call("select", self, expressions, NoName, Dict(<<>>)),
            select(queries[self], expressions))

CallInto(self, name) ==
    Returns(Call("into", self, <<>>, name, Dict(<<>>)), into(queries[self], name))

CallWhere(self, expressions, equals) ==
    Returns(Call(IF equals = <<>> THEN "where" ELSE "where equals", self, expressions,
                 NoName, Dict(<<>>)),
            where(queries[self], expressions, equals))

CallGroupBy(self, expressions) ==
    Returns(Call("group_by", self, expressions, NoName, Dict(<<>>)),
            group_by(queries[self], expressions))

CallOrderBy(self, expressions) ==
    Returns(Call("order_by", self, expressions, NoName, Dict(<<>>)),
            order_by(queries[self], expressions))

CallParams(self, query_params) ==
    Returns(Call("params", self, <<>>, NoName, query_params),
            params(queries[self], query_params))

\* an execute() that always reads
ExecuteGet(t, self) ==
    raw_query(t, Pieces(queries[self]), "GET", queries[self]._query_params)

\* SelectQuery.execute, lines 215-216, up to the first await of raw_query
execute(t, self) ==
    LET http_verb == IF queries[self]._into # "" THEN "POST" ELSE "GET"
    IN  raw_query(t, Pieces(queries[self]), http_verb, queries[self]._query_params)

\* no query builder has been made
NoBuilder ==
    /\ queries = <<>>
    /\ derived = <<>>

(***************************************************************************)
(* The client, with one caller and every status                            *)
(***************************************************************************)
InitClient ==
    /\ base_urls \in {[k \in 1..n |-> Url(k)] : n \in 1..MaxHosts}
    /\ session = "session"
    /\ close_session \in BOOLEAN
    /\ session_closed = FALSE
    /\ close_pc = "open"
    /\ task = [t \in Tasks |-> Idle]
    /\ dp = NoDataPoint
    /\ NoIteration
    /\ NoBuilder

NextOps ==
    \/ ping("t1")
    \/ \E query \in Queries, http_verb \in Verbs : raw_query("t1", query, http_verb, Dict(<<>>))
    \/ \E fields \in FieldSets : write("t1", "m1", <<>>, fields, NoTimestamp, "None")
    \/ \E o \in Outcomes : Deliver("t1", o)
    \/ close
    \/ CloseDone

SpecOps == InitClient /\ [][NextOps]_vars

(***************************************************************************)
(* The client, with one caller and every kind of query results             *)
(***************************************************************************)
QueryOutcomes ==
    {ConnectionError}
    \cup {Responded(Response(200, "application/json", "", p, "1.1.0")) : p \in Payloads}

NextQuery ==
    \/ \E query \in Queries, http_verb \in Verbs : raw_query("t1", query, http_verb, Dict(<<>>))
    \/ \E o \in QueryOutcomes : Deliver("t1", o)

SpecQuery == InitClient /\ [][NextQuery]_vars

(***************************************************************************)
(* The client, with concurrent callers                                     *)
(***************************************************************************)
Next ==
    \/ \E t \in Tasks : ping(t)
    \/ \E t \in Tasks, o \in FewOutcomes : Deliver(t, o)

Spec == InitClient /\ [][Next]_vars

(***************************************************************************)
(* The encoder alone: a data point is constructed, then encoded            *)
(***************************************************************************)
MaxFields == 2

MaxTags == 2

Key(prefix, k) == prefix \o ToString(k)

\* an ordered mapping with the given values under the keys prefix1, prefix2, ...
Mapping(prefix, values) == [k \in 1..Len(values) |-> <<Key(prefix, k), values[k]>>]

TagValues == {StrValue(<<"a", "b", "c">>), IntValue(<<"6">>)}

FieldValues ==
    {FloatValue(<<"5", ".", "5">>), IntValue(<<"7">>), StrValue(<<"x">>),
     StrValue(<<"a", "\"", "\\">>), BoolValue(<<"T", "r", "u", "e">>),
     DecimalValue(<<"1", ".", "1", "0">>)}

Timestamps ==
    {NoTimestamp, IntTimestamp(5), IntTimestamp(1480793211),
     Datetime(0), Datetime(1500), Datetime(2000001), Datetime(120000000)}

\* the precisions for which the ticks of the datetimes above fit the integers
FitsPrecision(timestamp, precision) ==
    timestamp.type = "datetime" /\ precision \in {"None", "n"} => timestamp.v <= 2000001

InitLine ==
    /\ dp \in {d \in [pc : {"args"}, measurement : {"m1"},
                      tags : {Mapping("tag", v) : v \in SeqsUpTo(TagValues, MaxTags)},
                      fields : {Mapping("field", v) : v \in SeqsUpTo(FieldValues, MaxFields)},
                      timestamp : Timestamps, precision : Precisions, line : {""}] :
                 FitsPrecision(d.timestamp, d.precision)}
    /\ base_urls = <<Url(1)>>
    /\ session = "session"
    /\ close_session = TRUE
    /\ session_closed = FALSE
    /\ close_pc = "open"
    /\ task = [t \in Tasks |-> Idle]
    /\ NoIteration
    /\ NoBuilder

\* DataPoint(measurement, tags, fields, timestamp)
Construct ==
    /\ dp.pc = "args"
    /\ dp' = [dp EXCEPT !.pc = IF DataPoint(dp.measurement, dp.tags, dp.fields,
                                            dp.timestamp).t = "raise"
                               THEN "raised" ELSE "constructed"]
    /\ UNCHANGED <<client, iteration, builder>>

\* datapoint.as_line(precision)
Encode ==
    /\ dp.pc = "constructed"
    /\ dp' = [dp EXCEPT !.pc = "encoded",
                        !.line = as_line(DataPoint(dp.measurement, dp.tags, dp.fields,
                                                   dp.timestamp), dp.precision)]
    /\ UNCHANGED <<client, iteration, builder>>

NextLine == Construct \/ Encode

SpecLine == InitLine /\ [][NextLine]_vars

(***************************************************************************)
(* Claims about the host list                                              *)
(***************************************************************************)
NoReachableHost == Raise("InfluxDBError", "no servers could be reached")

Fatal(base_url) == Raise("InfluxDBError", "unexpected error when connecting to " \o base_url)

\* the hosts at the first n places of the list
FirstHosts(n) == {base_urls[k] : k \in 1..n}

\* the list without one host, the others in their order
Without(urls, host) == SelectSeq(urls, LAMBDA u : u # host)

\* a request that runs alone is at the host at its place in the list, after
\* one request to each host before it
InListOrder(tk) ==
    /\ tk.base_url = base_urls[tk.i + 1]
    /\ tk.requests = tk.i + 1
    /\ tk.tried = FirstHosts(tk.i + 1)

\* task t starts a call in this step
Starts(t) == task[t].pc # "waiting" /\ task'[t] # task[t]

\* the HTTP request task t waits for ends in this step
Receives(t, kind) ==
    /\ task[t].pc = "waiting"
    /\ task'[t].outcome = kind
    /\ task'[t].pc = "done" \/ task'[t].requests > task[t].requests

\* C1: a request that runs with no other request in flight attempts the hosts
\* in the order of the list, the list staying as it is until a host responds;
\* the first host that responds, whatever the status, moves to the front and
\* the other hosts keep their order; and a request attempts the host at the
\* front first.
C1_SoloPromotion ==
    /\ [](\A t \in Tasks : task[t].pc = "waiting" /\ task[t].solo => InListOrder(task[t]))
    /\ [][\A t \in Tasks :
            /\ Starts(t) /\ task'[t].pc = "waiting" => task'[t].base_url = base_urls[1]
            /\ task[t].pc = "waiting" /\ task[t].solo /\ task'[t].solo =>
                 IF Receives(t, "response")
                 THEN /\ task'[t].pc = "done"
                      /\ base_urls' = <<task[t].base_url>> \o Without(base_urls, task[t].base_url)
                 ELSE base_urls' = base_urls]_vars

\* reached: with three hosts, the third responded to a request that ran alone,
\* and the next request is at that host, now the first
C1_Witness ==
    \E t, u \in Tasks :
        /\ task[t].pc = "done" /\ task[t].solo /\ task[t].outcome = "response"
        /\ task[t].i = 2 /\ task[t].response.status = 500
        /\ base_urls = <<Url(3), Url(1), Url(2)>>
        /\ task[u].pc = "waiting" /\ task[u].requests = 1 /\ task[u].base_url = Url(3)

\* C2: with concurrent requests, a request fails with the no-reachable-host
\* error only if it attempted every configured host.
C2_TriesEveryHost ==
    \A t \in Tasks :
        task[t].pc = "done" /\ task[t].result = NoReachableHost
            => task[t].tried = Range(base_urls)

\* C3: a request that runs alone and ends after a connection error ends with
\* the no-reachable-host error, after one request to each host of the list, in
\* list order.
C3_AllHostsFail ==
    \A t \in Tasks :
        /\ task[t].pc = "waiting" /\ task[t].solo => InListOrder(task[t])
        /\ task[t].pc = "done" /\ task[t].solo /\ task[t].outcome = "ClientConnectionError" =>
             /\ task[t].result = NoReachableHost
             /\ task[t].requests = Len(base_urls)
             /\ task[t].tried = Range(base_urls)
        /\ task[t].pc = "done" /\ task[t].solo /\ task[t].result = NoReachableHost =>
             /\ task[t].outcome = "ClientConnectionError"
             /\ task[t].requests = Len(base_urls)

\* reached: three hosts, a request that ran alone, three connection errors
C3_Witness ==
    \E t \in Tasks :
        /\ task[t].pc = "done" /\ task[t].solo /\ task[t].result = NoReachableHost
        /\ task[t].requests = 3 /\ Len(base_urls) = 3

\* C4: when the attempt on a host fails with an error that is no connection
\* error (raised by the HTTP request, or by the session being unusable), the
\* call ends at once with the fatal error naming that host: no further request
\* goes out and the list stays as it is.
C4_AbortsOnOtherError ==
    [][\A t \in Tasks :
         /\ Receives(t, "Exception") =>
              /\ task'[t].pc = "done"
              /\ task'[t].result = Fatal(task[t].base_url)
              /\ task'[t].requests = task[t].requests
              /\ base_urls' = base_urls
         /\ task'[t] # task[t] /\ task'[t].outcome = "no session" =>
              /\ task'[t].pc = "done"
              /\ task'[t].result = Fatal(task'[t].base_url)
              /\ task'[t].base_url = base_urls[task'[t].i + 1]
              /\ task'[t].requests = IF task[t].pc = "waiting" THEN task[t].requests ELSE 0
              /\ base_urls' = base_urls]_vars

\* reached: of three hosts the first failed to connect and the second raised
\* another error; the third was not attempted and the list is as configured
C4_Witness ==
    \E t \in Tasks :
        /\ task[t].pc = "done" /\ task[t].outcome = "Exception"
        /\ task[t].result = Fatal(Url(2))
        /\ task[t].tried = {Url(1), Url(2)}
        /\ base_urls = <<Url(1), Url(2), Url(3)>>

\* C5: close() closes the session only of a client that created it, and after
\* close() a write, query or ping fails without an HTTP request.
C5_Close ==
    /\ [](close_pc = "closed" => session = "None" /\ (session_closed <=> close_session))
    /\ [](~close_session => ~session_closed)
    /\ [][\A t \in Tasks :
            close_pc = "closed" /\ Starts(t) =>
                /\ task'[t].pc = "done"
                /\ task'[t].result.t = "raise"
                /\ task'[t].requests = 0]_vars

\* reached: a client with an injected session is closed, the session is open,
\* and a query after it has failed without a request
C5_Witness ==
    \E t \in Tasks :
        /\ close_pc = "closed" /\ ~close_session /\ ~session_closed
        /\ task[t].pc = "done" /\ task[t].op = "query" /\ task[t].outcome = "no session"
        /\ task[t].requests = 0

\* reached: a client that created its session is closed and the session too
C5_WitnessOwned == close_pc = "closed" /\ close_session /\ session_closed

(***************************************************************************)
(* Claims about the operations                                             *)
(***************************************************************************)
\* a call that has ended with a response of the given status
Answered(tk, op, statuses) ==
    /\ tk.pc = "done" /\ tk.op = op /\ tk.outcome = "response"
    /\ tk.response.status \in statuses

HasError(statement) == "error" \in DOMAIN statement

\* the number of series of a statement of the results
NumSeries(statement) ==
    IF "series" \in DOMAIN statement THEN Len(statement.series) ELSE 0

\* the series of a statement as objects
SeriesOf(statement) == [k \in 1..NumSeries(statement) |-> Series(statement.series[k])]

\* what the statement is said to decode to
Flattened(statement) ==
    IF NumSeries(statement) = 0 THEN None
    ELSE IF NumSeries(statement) = 1 THEN SeriesOf(statement)[1]
    ELSE List(SeriesOf(statement))

\* C6: a 200 response without errors decodes statement by statement (no series:
\* None; one series: the series; several: the list of them), and then as a
\* whole: the result of a sole statement, or the list of the results.
C6_Flattening ==
    \A t \in Tasks :
        LET results == task[t].response.json.results
        IN  Answered(task[t], "query", {200}) /\ (\A k \in 1..Len(results) : ~HasError(results[k]))
              => task[t].result =
                   Return(IF Len(results) = 1 THEN Flattened(results[1])
                          ELSE List([k \in 1..Len(results) |-> Flattened(results[k])]))

\* C7: the error of a statement is raised if and only if the statement is the
\* only one of the response; with two or more statements the call returns the
\* list of the results, each error as a value at the place of its statement and
\* the other statements' results at theirs.
C7_SoleErrorRaised ==
    \A t \in Tasks :
        LET results == task[t].response.json.results
            result == task[t].result
        IN  Answered(task[t], "query", {200}) =>
              /\ result.t = "raise" <=> Len(results) = 1 /\ HasError(results[1])
              /\ result.t = "raise" => result = Raise("InfluxDBError", results[1].error)
              /\ Len(results) >= 2 =>
                   /\ result.t = "return" /\ result.value.t = "list"
                   /\ Len(result.value.v) = Len(results)
                   /\ \A k \in 1..Len(results) :
                        IF HasError(results[k])
                        THEN result.value.v[k] = InfluxDBError(results[k].error)
                        ELSE /\ result.value.v[k].t # "InfluxDBError"
                             /\ NumSeries(results[k]) > 0 =>
                                  result.value.v[k] = Flattened(results[k])

\* reached: of two statements the first failed and the second has a series
C7_Witness ==
    \E t \in Tasks :
        /\ Answered(task[t], "query", {200})
        /\ task[t].result =
             Return(List(<<InfluxDBError("measurement not found"), Series(Series1)>>))

\* reached: the only statement failed and its error is raised
C7_WitnessSole ==
    \E t \in Tasks :
        /\ Answered(task[t], "query", {200})
        /\ Len(task[t].response.json.results) = 1
        /\ task[t].result = Raise("InfluxDBError", "measurement not found")

ServerErrorStatuses == {400, 404, 500}

\* C8: the status of the first response decides the call and no further host
\* is tried: write returns on 204 and on 204 only, query returns only on 200,
\* ping only on 204 and then the version header; for write and query a 400,
\* 404 or 500 with a JSON body raises the server's error text; any other status
\* or content type raises the unexpected-status error with the status.
C8_StatusDecides ==
    /\ [](\A t \in Tasks :
            LET tk == task[t]
                response == tk.response
                success == IF tk.op = "query" THEN 200 ELSE 204
                described == /\ tk.op \in {"write", "query"}
                             /\ response.status \in ServerErrorStatuses
                             /\ response.content_type = "application/json"
            IN  tk.pc = "done" /\ tk.outcome = "response" =>
                  /\ tk.result.t = "return" => response.status = success
                  /\ tk.op = "write" /\ response.status = 204 => tk.result = Return(None)
                  /\ tk.op = "ping" /\ tk.result.t = "return" =>
                       tk.result.value.v = response.headers[VersionHeader]
                  /\ described => tk.result = Raise("InfluxDBError", response.json.error)
                  /\ response.status # success /\ ~described =>
                       tk.result = Raise("InfluxDBError", "unexpected HTTP status code: "
                                                          \o ToString(response.status)))
    /\ [][\A t \in Tasks :
            Receives(t, "response") =>
              task'[t].pc = "done" /\ task'[t].requests = task[t].requests]_vars

\* reached: the first host failed to connect, the second answered a write with
\* a 400 that is no JSON, and the write raised the unexpected-status error
C8_Witness ==
    \E t \in Tasks :
        /\ Answered(task[t], "write", {400})
        /\ task[t].response.content_type = "text/plain"
        /\ task[t].requests = 2 /\ Len(base_urls) = 3
        /\ task[t].result = Raise("InfluxDBError", "unexpected HTTP status code: 400")

\* reached: a query answered by a 500 with a JSON body raised the server's text
C8_WitnessServerError ==
    \E t \in Tasks :
        /\ Answered(task[t], "query", {500})
        /\ task[t].result = Raise("InfluxDBError", "database not found")

\* C9: a write without fields fails with the ValueError of the constructor,
\* no HTTP request goes out and the host list stays as it is.
C9_NoFields ==
    /\ [](\A t \in Tasks :
            task[t].op = "write" /\ task[t].fields = <<>> =>
              /\ task[t].pc = "done"
              /\ task[t].result = Raise("ValueError", "at least one field is required")
              /\ task[t].requests = 0 /\ task[t].tried = {})
    /\ [][\A t \in Tasks :
            Starts(t) /\ task'[t].op = "write" /\ task'[t].fields = <<>> =>
              base_urls' = base_urls]_vars

\* reached: a write without fields has failed on an open client
C9_Witness ==
    \E t \in Tasks :
        /\ task[t].pc = "done" /\ task[t].op = "write" /\ task[t].fields = <<>>
        /\ task[t].result.type = "ValueError"
        /\ close_pc = "open" /\ session = "session" /\ Len(base_urls) = 3

(***************************************************************************)
(* Claims about the encoder                                                *)
(***************************************************************************)
\* a field value by its type
TypedValue(value) ==
    CASE value.type \in {"bool", "float", "Decimal"} -> Join("", value.chars)
      [] value.type = "int" -> Join("", value.chars) \o "i"
      [] OTHER -> "\"" \o Escape(value.chars) \o "\""

\* the line of a data point, part by part
Line(d) ==
    LET tags == [k \in 1..Len(d.tags) |-> d.tags[k][1] \o "=" \o Join("", d.tags[k][2].chars)]
        fields == [k \in 1..Len(d.fields) |-> d.fields[k][1] \o "=" \o TypedValue(d.fields[k][2])]
        time == CASE d.timestamp.type = "NoneType" -> ""
                  [] d.timestamp.type = "int" -> " " \o ToString(d.timestamp.v)
                  [] d.timestamp.type = "datetime" ->
                       " " \o ToString(convert_to_timestamp(d.timestamp, d.precision))
    IN  d.measurement \o (IF Len(tags) = 0 THEN "" ELSE "," \o Join(",", tags))
        \o " " \o Join(",", fields) \o time

\* C10: the line of a data point is the measurement, the tags if any, the
\* fields, each value by its type, and the timestamp if any: an integer as it
\* is, a datetime as its ticks in the precision.
C10_LineFormat == dp.pc = "encoded" => dp.line = Line(dp)

\* reached: the line of a point with two tags, a float and an integer field
\* and an integer timestamp
C10_Witness ==
    /\ dp.pc = "encoded" /\ dp.precision = "u"
    /\ dp.line = "m1,tag1=abc,tag2=6 field1=5.5,field2=7i 1480793211"

\* reached: a boolean and a string with a quote and a backslash, no tags, a
\* datetime of 1500 microseconds in milliseconds
C10_WitnessTypes ==
    /\ dp.pc = "encoded" /\ dp.precision = "ms" /\ dp.timestamp = Datetime(1500)
    /\ dp.line = "m1 field1=True,field2=\"a\\\"\\\\\" 1"

(***************************************************************************)
(* Claims about the host list under concurrent requests                    *)
(***************************************************************************)
\* C16: whatever the interleaving, the host a request moves to the front when
\* it gets a response is the host that responded.
C16_MovesResponder ==
    [][\A t \in Tasks :
         Receives(t, "response") /\ Len(base_urls) > 1 =>
           base_urls'[1] = task[t].base_url]_vars

\* C17: the host list is always a permutation of the configured hosts: it
\* keeps its length and its hosts, each once.
C17_Permutation ==
    /\ [](/\ Range(base_urls) = {Url(k) : k \in 1..Len(base_urls)}
          /\ Cardinality(Range(base_urls)) = Len(base_urls))
    /\ [][Len(base_urls') = Len(base_urls) /\ Range(base_urls') = Range(base_urls)]_vars

\* reached: three hosts reordered twice, the second time by a request that
\* overlapped another, while another request has ended with an error
C17_Witness ==
    \E t, u \in Tasks :
        /\ base_urls = <<Url(2), Url(3), Url(1)>>
        /\ task[t].pc = "done" /\ ~task[t].solo /\ task[t].outcome = "response"
        /\ task[u].pc = "done" /\ task[u].outcome = "Exception"

(***************************************************************************)
(* A series iterated by two generators                                     *)
(***************************************************************************)
\* the raw rows of a result set, with and without a column of times
RawRows(columns) ==
    IF "time" \in Range(columns)
    THEN {<<StrValue(<<"7">>), FloatValue(<<"2", ".", "5">>)>>,
          <<StrValue(<<"1", "2">>), FloatValue(<<"8", ".", "3">>)>>}
    ELSE {<<FloatValue(<<"2", ".", "6">>), FloatValue(<<"2", ".", "1">>)>>,
          <<FloatValue(<<"8", ".", "3">>), FloatValue(<<"5", ".", "2">>)>>}

ColumnLists == {<<"time", "value">>, <<"col1", "col2">>}

InitSeries ==
    /\ \E columns \in ColumnLists :
         \E values \in SeqsUpTo(RawRows(columns), MaxRows) :
            the_series = Series([name |-> "dummyseries", columns |-> columns,
                                 values |-> values])
    /\ gen = [g \in Gens |-> NoGenerator]
    /\ base_urls = <<Url(1)>>
    /\ session = "session"
    /\ close_session = TRUE
    /\ session_closed = FALSE
    /\ close_pc = "open"
    /\ task = [t \in Tasks |-> Idle]
    /\ dp = NoDataPoint
    /\ NoBuilder

NextSeries == \E g \in Gens : Iter(g) \/ NextRow(g)

SpecSeries == InitSeries /\ [][NextSeries]_vars

\* the rows a generator yields for raw rows: the time, if there is one, as a
\* datetime and everything else as it is
TypedRow(columns, raw) ==
    [k \in 1..Len(raw) |->
        IF columns[k] = "time" /\ raw[k].type = "str"
        THEN Datetime(1000000 * Seconds(raw[k].chars)) ELSE raw[k]]

\* C14: a generator of a series never fails, one that has ended has yielded
\* one typed row per row of the series in their order, and the rows the
\* series holds stay the raw rows: their times stay strings.
C14_Restartable ==
    \A g \in Gens :
        /\ gen[g].pc # "raised"
        /\ the_series.values \in SeqsUpTo(RawRows(the_series.columns), MaxRows)
        /\ gen[g].pc = "exhausted" =>
             /\ Len(gen[g].yielded) = Len(the_series.values)
             /\ \A k \in 1..Len(gen[g].yielded) :
                  gen[g].yielded[k].row =
                    TypedRow(the_series.columns, the_series.values[k])

(***************************************************************************)
(* Query builders derived from one made by client.query()                  *)
(***************************************************************************)
\* no expressions, an empty one, one and two
ExpressionLists == {<<>>, <<"">>, <<"x>1">>, <<"y<2">>, <<"x>1", "y<2">>}

EqualsLists == {<<>>, <<<<StrValue(<<"k", "1">>), IntValue(<<"6">>)>>>>}

Names == {StrValue(<<"m", "3">>), StrValue(<<>>)}

ParamDicts == {Dict(<<>>), Dict(<<<<"rp", "dontkeep">>, <<"epoch", "m">>>>)}

InitBuilder ==
    /\ queries = <<client_query("key1,key2", "\"m1\",\"m2\"")>>
    /\ derived = <<Call("query", 0, <<>>, NoName, Dict(<<>>))>>
    /\ base_urls = <<Url(1)>>
    /\ session = "session"
    /\ close_session = TRUE
    /\ session_closed = FALSE
    /\ close_pc = "open"
    /\ task = [t \in Tasks |-> Idle]
    /\ dp = NoDataPoint
    /\ NoIteration

Selves == 1..Len(queries)

NextBuilder ==
    \/ \E self \in Selves, expressions \in ExpressionLists : CallSelect(self, expressions)
    \/ \E self \in Selves, name \in Names : CallInto(self, name)
    \/ \E self \in Selves, expressions \in ExpressionLists, equals \in EqualsLists :
          CallWhere(self, expressions, equals)
    \/ \E self \in Selves, expressions \in ExpressionLists : CallGroupBy(self, expressions)
    \/ \E self \in Selves, expressions \in ExpressionLists : CallOrderBy(self, expressions)
    \/ \E self \in Selves, query_params \in ParamDicts : CallParams(self, query_params)

SpecBuilder == InitBuilder /\ [][NextBuilder]_vars

\* C11: a call of select, into, where, group_by, order_by or params returns a
\* new query, and the text and the HTTP query parameters of every query there
\* was, the one it was called on among them, are what they were.
C11_Immutable ==
    [][/\ Len(queries') = Len(queries) + 1
       /\ \A q \in 1..Len(queries) :
            /\ str(queries'[q]) = str(queries[q])
            /\ queries'[q]._query_params = queries[q]._query_params]_vars

\* reached: two queries derived from the first, one with another text and one
\* with other parameters, and the first as it was made
C11_Witness ==
    /\ Len(queries) = 3
    /\ derived[2].self = 1 /\ derived[3].self = 1
    /\ str(queries[2]) = "SELECT key1,key2 FROM \"m1\",\"m2\" WHERE x>1 AND y<2"
    /\ queries[3]._query_params = Dict(<<<<"rp", "dontkeep">>, <<"epoch", "m">>>>)
    /\ str(queries[1]) = "SELECT key1,key2 FROM \"m1\",\"m2\""
    /\ queries[1]._query_params = Dict(<<>>)

Keywords == <<"SELECT", "INTO", "FROM", "WHERE", "GROUP BY", "ORDER BY">>

\* the keywords of a text, given by its pieces
KeywordsOf(pieces) == [k \in 1..(Len(pieces) \div 2) |-> pieces[2 * k - 1]]

\* the clause after each keyword
ClausesOf(pieces) == [k \in 1..(Len(pieces) \div 2) |-> pieces[2 * k]]

\* SELECT <select> [INTO <into>] FROM <from> [WHERE <where>]
\* [GROUP BY <group-by>] [ORDER BY <order-by>]
InForm(pieces) ==
    /\ Len(pieces) % 2 = 0
    /\ \E optional \in SUBSET {"INTO", "WHERE", "GROUP BY", "ORDER BY"} :
         KeywordsOf(pieces) =
           SelectSeq(Keywords, LAMBDA word : word \in optional \cup {"SELECT", "FROM"})

RECURSIVE SelectReset(_)
\* the last call of select() on the way to query q had nothing to add: no
\* expressions, or only empty ones
SelectReset(q) ==
    IF derived[q].op = "select" THEN Join(",", derived[q].expressions) = ""
    ELSE IF derived[q].op = "query" THEN FALSE
    ELSE SelectReset(derived[q].self)

Apply(op, self, expressions) ==
    CASE op = "select" -> select(self, expressions)
      [] op = "where" -> where(self, expressions, <<>>)
      [] op = "group_by" -> group_by(self, expressions)
      [] op = "order_by" -> order_by(self, expressions)

NonEmpty(expressions) == \A k \in 1..Len(expressions) : expressions[k] # ""

Separator(op) == IF op = "where" THEN " AND " ELSE ","

\* the clause of a query that the operation of the name op is about
ClauseOf(op, self) ==
    CASE op = "select" -> self._select
      [] op = "where" -> self._where
      [] op = "group_by" -> self._group_by
      [] op = "order_by" -> self._order_by

ExecuteOutcomes ==
    {ConnectionError,
     Responded(Response(200, "application/json", "",
                        <<[statement_id |-> 0, series |-> <<Series1>>]>>, "1.1.0"))}

NextExecute ==
    \/ \E self \in Selves, name \in Names : CallInto(self, name)
    \/ \E self \in Selves, expressions \in {<<>>, <<"x>1">>} :
          CallWhere(self, expressions, <<>>)
    \/ \E self \in Selves, query_params \in ParamDicts : CallParams(self, query_params)
    \/ \E self \in Selves : execute("t1", self)
    \/ \E o \in ExecuteOutcomes : Deliver("t1", o)

SpecExecute == InitBuilder /\ [][NextExecute]_vars

====
